---- MODULE Spec2Model ----
(***************************************************************************)
(* Model of the GitHub webhook listener of ochazuke                         *)
(* (webcompat-metrics-server): src/ochazuke/webhook/__init__.py and         *)
(* src/ochazuke/webhooks/helpers.py.                                        *)
(*                                                                         *)
(* The state is the database the listener writes to (issue, label,          *)
(* milestone and event tables) plus a record of the last request delivered  *)
(* and of what the handler did with it, and the history the properties      *)
(* speak of (trip, lastStatus, handled).  One action, Deliver, is one run    *)
(* of issues_hooklistener on one HTTP POST, with the database refusing      *)
(* one of its commits or none.  An exception that leaves the view function  *)
(* is answered by Flask with status 500; the model keeps the exception's    *)
(* name in the variable fault.  The rows of the tables (ochazuke.models)    *)
(* are those of the specification's data model.                             *)
(* A second specification, SpecConcurrent, runs two handlers of one issue   *)
(* at the same time, a step for each access to the database.               *)
(*                                                                         *)
(* Strings that the code takes apart (the X-Hub-Signature header) are       *)
(* sequences of chunks: "sha1", "md5", "=" and two-character hex chunks.    *)
(* Python's None is the string None; a key missing from a JSON object is    *)
(* the string Absent.                                                       *)
(***************************************************************************)
EXTENDS Integers, Sequences, FiniteSets, TLC

VARIABLES
    issues,       \* issue table: issue number -> row (rows that exist)
    labels,       \* label table: name -> number of rows of that name
    milestones,   \* milestone table: title -> number of rows of that title
    events,       \* event table, in insertion order
    request,      \* the last request delivered
    status,       \* HTTP status it was answered with (500: unhandled exception)
    text,         \* the response body of the view ("": it returned none)
    extracted,    \* what extract_issue_event_info gave the view for the request
    fault,        \* name of the exception that left the handler, or NoFault
    mutated,      \* the handler ran an issue mutation to its commit
    evented,      \* the handler committed a new event row
    dbFailed,     \* a commit of this request was refused by the database
    persisted,    \* the request changed a table
    due,          \* the request is a desirable issue notification that the tables
                  \* can take: its issue, label and milestone exist (for 'opened':
                  \* the issue does not exist yet)
    trip,         \* labeled/unlabeled or milestoned/unmilestoned pair in progress
    lastStatus,   \* per issue, its last closed/reopened notification processed
    handled,      \* due notifications processed so far without a refused commit
    delivered,    \* requests delivered so far
    workers,      \* two handlers that run at the same time: for each its
                  \* request, its place in the view and what its session read
    origin,       \* the tables when the two handlers started
    interleaved   \* a handler took a step while the other was under way

vars == <<issues, labels, milestones, events, request, status, text, extracted, fault,
          mutated, evented, dbFailed, persisted, due, trip, lastStatus, handled,
          delivered, workers, origin, interleaved>>

-----------------------------------------------------------------------------
(* Bounds of the model *)

MaxRequests == 2

(* Values of the model *)

None == "None"
Absent == "<absent>"
NoFault == "none"

IssueIds == {1, 2}
Titles == {"t1", "t2"}
LabelNames == {"bug", "defect"}
MilestoneTitles == {"m1", "m2"}
Actor == "alice"

HOOK_SECRET_KEY == "secret"

-----------------------------------------------------------------------------
(* Signature validation: helpers.py, lines 23-51 *)

\* str.startswith('sha1='), on a header made of chunks
StartsWithSha1(s) == Len(s) >= 2 /\ s[1] = "sha1" /\ s[2] = "="

\* str.split('='): the pieces between the "=" chunks
RECURSIVE SplitEq(_)
SplitEq(s) ==
    IF s = <<>> THEN << <<>> >>
    ELSE LET rest == SplitEq(Tail(s))
         IN  IF Head(s) = "="
             THEN << <<>> >> \o rest
             ELSE << <<Head(s)>> \o Head(rest) >> \o Tail(rest)

\* hmac.new(key, msg=payload, digestmod=sha1).hexdigest(): a keyed hash of the
\* raw body, here onto two hex chunks
get_payload_signature(key, payload) ==
    IF key = HOOK_SECRET_KEY
    THEN (IF payload.json THEN <<"aa">> ELSE <<"bb">>)
    ELSE (IF payload.json THEN <<"bb">> ELSE <<"aa">>)

\* signature_check returns [exc, ret]: the exception raised (NoFault when it
\* returns) and the value returned
signature_check(key, post_signature, payload) ==
    IF StartsWithSha1(post_signature)
    THEN LET parts == SplitEq(post_signature)
         IN  IF Len(parts) # 2
             THEN [exc |-> "ValueError", ret |-> FALSE]   \* unpacking into two names
             ELSE IF parts[2] = <<>>
                  THEN [exc |-> NoFault, ret |-> FALSE]
                  ELSE [exc |-> NoFault,
                        ret |-> (get_payload_signature(key, payload) = parts[2])]
    ELSE [exc |-> NoFault, ret |-> FALSE]

HasHeader(req, name) == name \in DOMAIN req.headers

\* is_github_hook taking a request without a signature header for GitHub's
is_github_hook_unsigned_accepted(req) ==
    IF ~HasHeader(req, "X-GitHub-Event")
    THEN [exc |-> NoFault, ret |-> FALSE]
    ELSE IF HasHeader(req, "X-Hub-Signature") /\ req.headers["X-Hub-Signature"] # <<>>
         THEN signature_check(HOOK_SECRET_KEY, req.headers["X-Hub-Signature"], req.data)
         ELSE [exc |-> NoFault, ret |-> TRUE]

is_github_hook(req) ==
    IF ~HasHeader(req, "X-GitHub-Event")
    THEN [exc |-> NoFault, ret |-> FALSE]
    ELSE IF HasHeader(req, "X-Hub-Signature") /\ req.headers["X-Hub-Signature"] # <<>>
         THEN signature_check(HOOK_SECRET_KEY, req.headers["X-Hub-Signature"], req.data)
         ELSE [exc |-> NoFault, ret |-> FALSE]

-----------------------------------------------------------------------------
(* Event classification and extraction: helpers.py, lines 54-99 *)

NoChanges == [key |-> Absent, val |-> None]

\* Python truth value of the changes map: None and {} are false
ChangesTruthy(changes) == changes.key \notin {Absent, "empty"}

\* Python truth value of changes.get('title'): a missing key and a null value
\* are false, the object {'from': ...} is true
TitleChangeTruthy(changes) == changes.key = "title" /\ changes.val # None

\* is_desirable_issue_event without the test of the title key
is_desirable_issue_event_any_edit(action, changes) ==
    IF action \in {"opened", "closed", "reopened", "labeled", "unlabeled",
                   "milestoned", "unmilestoned"}
    THEN TRUE
    ELSE action = "edited" /\ ChangesTruthy(changes)

\* is_desirable_issue_event with 'assigned' among the accepted actions
is_desirable_issue_event_assigned(action, changes) ==
    IF action \in {"opened", "closed", "reopened", "labeled", "unlabeled",
                   "milestoned", "unmilestoned", "assigned"}
    THEN TRUE
    ELSE IF action = "edited" /\ ChangesTruthy(changes)
         THEN TitleChangeTruthy(changes)
         ELSE FALSE

is_desirable_issue_event(action, changes) ==
    IF action \in {"opened", "closed", "reopened", "labeled", "unlabeled",
                   "milestoned", "unmilestoned"}
    THEN TRUE
    ELSE IF action = "edited" /\ ChangesTruthy(changes)
         THEN TitleChangeTruthy(changes)
         ELSE FALSE

NoDetails == [key |-> None, val |-> None]

\* The details value extract_issue_event_info computes: [exc, ret]
ExtractDetails(payload, action, changes) ==
    IF action \in {"opened", "closed", "reopened", "edited"}
    THEN [exc |-> NoFault,
          ret |-> IF ChangesTruthy(changes) /\ TitleChangeTruthy(changes)
                  THEN [key |-> "old title", val |-> changes.val]
                  ELSE NoDetails]
    ELSE IF action = "milestoned"      \* action == ('milestoned' or 'demilestoned')
         THEN IF payload.issue.milestone = None
              THEN [exc |-> "TypeError", ret |-> NoDetails]
              ELSE [exc |-> NoFault,
                    ret |-> [key |-> "milestone title", val |-> payload.issue.milestone]]
         ELSE IF payload.label = Absent
              THEN [exc |-> "KeyError", ret |-> NoDetails]
              ELSE [exc |-> NoFault,
                    ret |-> [key |-> "label name", val |-> payload.label]]

NoInfo == [issue_id |-> 0, title |-> None, created_at |-> None, milestone |-> None,
           actor |-> None, action |-> None, details |-> NoDetails,
           received_at |-> None]

\* the view did not call extract_issue_event_info
NotExtracted == [exc |-> NoFault, ret |-> NoInfo]

\* extract_issue_event_info returns [exc, ret]
extract_issue_event_info(payload, action, changes) ==
    IF ~payload.issue.present
    THEN [exc |-> "KeyError", ret |-> NoInfo]             \* payload['issue']
    ELSE LET d == ExtractDetails(payload, action, changes)
         IN  IF d.exc # NoFault
             THEN [exc |-> d.exc, ret |-> NoInfo]
             ELSE [exc |-> NoFault,
                   ret |-> [issue_id    |-> payload.issue.number,
                            title       |-> payload.issue.title,
                            created_at  |-> payload.issue.created_at,
                            milestone   |-> payload.issue.milestone,
                            actor       |-> payload.sender,
                            action      |-> action,
                            details     |-> d.ret,
                            received_at |-> payload.issue.updated_at]]

-----------------------------------------------------------------------------
(* The database session.  A helper returns [db, exc, failed]: the tables as  *)
(* committed, the exception it raised (NoFault when it returns) and whether  *)
(* the database refused its commit.  A refused commit raises                 *)
(* SQLAlchemyError and persists nothing of the transaction.                  *)

Returned(db) == [db |-> db, exc |-> NoFault, failed |-> FALSE]
Raised(db, exc) == [db |-> db, exc |-> exc, failed |-> FALSE]
Refused(db) == [db |-> db, exc |-> "SQLAlchemyError", failed |-> TRUE]

\* db.session.commit() of the staged tables
Commit(db, staged, fail) == IF fail THEN Refused(db) ELSE Returned(staged)

\* Issue.query.get(id) finds a row
IssueExists(db, id) == id \in DOMAIN db.issues

\* The label and milestone tables give, for each name, the number of rows of
\* that name.  RowsNamed: the rows that query.filter_by(name=...) selects
RowsNamed(table, name) == IF name \in DOMAIN table THEN table[name] ELSE 0

\* the names that have a row
Named(table) == {name \in DOMAIN table : table[name] > 0}

\* add_new_issue: both branches raise before anything is staged.  With a
\* milestone title, filter_by is called with a positional argument; without
\* one, the local name milestone is read unbound in milestone.id
add_new_issue(db, info, fail) ==
    IF info.milestone # None
    THEN Raised(db, "TypeError")
    ELSE Raised(db, "UnboundLocalError")

\* add_new_event: the event is committed, then the log message is formatted
\* with a placeholder {evg} that has no argument; a refused commit is rolled
\* back and logged, and the function returns
add_new_event(db, info, fail) ==
    LET event == [issue_id |-> info.issue_id, actor |-> info.actor,
                  action |-> info.action, details |-> info.details,
                  received_at |-> info.received_at]
    IN  IF fail
        THEN [db |-> db, exc |-> NoFault, failed |-> TRUE]
        ELSE Raised([db EXCEPT !.events = Append(@, event)], "KeyError")

\* issue_title_edit that also marks the issue open
issue_title_edit_reopens(db, info, fail) ==
    IF ~IssueExists(db, info.issue_id)
    THEN Raised(db, "AttributeError")
    ELSE Commit(db, [db EXCEPT !.issues[info.issue_id].title = info.title,
                               !.issues[info.issue_id].is_open = TRUE], fail)

issue_title_edit(db, info, fail) ==
    IF ~IssueExists(db, info.issue_id)
    THEN Raised(db, "AttributeError")
    ELSE Commit(db, [db EXCEPT !.issues[info.issue_id].title = info.title], fail)

issue_status_change(db, info, action, fail) ==
    IF action \notin {"closed", "reopened"}
    THEN Raised(db, "KeyError")                            \* status[action]
    ELSE IF ~IssueExists(db, info.issue_id)
         THEN Raised(db, "AttributeError")
         ELSE Commit(db, [db EXCEPT !.issues[info.issue_id].is_open =
                                        (action = "reopened")], fail)

\* issue_milestone_change: info has no key 'milestone_id'
issue_milestone_change(db, info, fail) ==
    IF info.action = "milestoned"
    THEN Raised(db, "KeyError")
    ELSE IF ~IssueExists(db, info.issue_id)
         THEN Raised(db, "AttributeError")
         ELSE Commit(db, [db EXCEPT !.issues[info.issue_id].milestone_id = None], fail)

\* issue_label_change that takes the label as named, without the lookup
issue_label_change_unchecked(db, info, fail) ==
    IF info.details.key = None
    THEN Raised(db, "TypeError")
    ELSE IF info.details.key # "label name"
    THEN Raised(db, "KeyError")
    ELSE IF ~IssueExists(db, info.issue_id)
    THEN Raised(db, "AttributeError")
    ELSE IF info.action = "labeled"
    THEN Commit(db, [db EXCEPT !.issues[info.issue_id].labels =
                                   @ \cup {info.details.val}], fail)
    ELSE IF info.details.val \notin db.issues[info.issue_id].labels
    THEN Raised(db, "ValueError")
    ELSE Commit(db, [db EXCEPT !.issues[info.issue_id].labels =
                                   @ \ {info.details.val}], fail)

issue_label_change(db, info, fail) ==
    IF info.details.key = None
    THEN Raised(db, "TypeError")                           \* None['label name']
    ELSE IF info.details.key # "label name"
    THEN Raised(db, "KeyError")
    ELSE IF RowsNamed(db.labels, info.details.val) = 0
    THEN Raised(db, "NoResultFound")                       \* .one()
    ELSE IF RowsNamed(db.labels, info.details.val) > 1
    THEN Raised(db, "MultipleResultsFound")                \* .one()
    ELSE IF ~IssueExists(db, info.issue_id)
    THEN Raised(db, "AttributeError")
    ELSE IF info.action = "labeled"
    THEN Commit(db, [db EXCEPT !.issues[info.issue_id].labels =
                                   @ \cup {info.details.val}], fail)
    ELSE IF info.details.val \notin db.issues[info.issue_id].labels
    THEN Raised(db, "ValueError")                          \* list.remove
    ELSE Commit(db, [db EXCEPT !.issues[info.issue_id].labels =
                                   @ \ {info.details.val}], fail)

-----------------------------------------------------------------------------
(* Label and milestone notifications: helpers.py, lines 224-259 *)

\* the insert of a table whose name column is not unique
InsertUnique_unconstrained(db, table, name, fail) ==
    IF fail
    THEN Refused(db)
    ELSE Returned([db EXCEPT ![table][name] = @ + 1])

\* Label(name) / Milestone(title) added and committed.  The name (title) is the
\* row's unique identity: a second row of the same name is refused by the
\* database (IntegrityError, a SQLAlchemyError)
InsertUnique(db, table, name, fail) ==
    IF fail \/ RowsNamed(db[table], name) > 0
    THEN Refused(db)
    ELSE Returned([db EXCEPT ![table][name] = @ + 1])

process_label_event_info(db, payload, fail) ==
    IF payload.action = Absent \/ payload.label = Absent
    THEN Raised(db, "KeyError")
    ELSE IF payload.changes.key \notin {Absent, "name"}
    THEN Raised(db, "KeyError")                        \* payload['changes']['name']
    ELSE IF payload.changes.key = "name" /\ payload.changes.val = None
    THEN Raised(db, "TypeError")                       \* None['from']
    ELSE IF payload.action = "created"
    THEN InsertUnique(db, "labels", payload.label, fail)
    ELSE IF payload.changes.key = "name"
    \* label is the Query, not a row: label.name = ... changes no row
    THEN Commit(db, db, fail)
    \* db.session.remove(label): remove() takes no argument
    ELSE Raised(db, "TypeError")

process_milestone_event_info(db, payload, fail) ==
    IF payload.action = Absent \/ payload.milestone = Absent
    THEN Raised(db, "KeyError")
    ELSE IF payload.changes.key \notin {Absent, "title"}
    THEN Raised(db, "KeyError")                        \* payload['changes']['title']
    ELSE IF payload.action = "created"
    THEN InsertUnique(db, "milestones", payload.milestone, fail)
    ELSE IF payload.changes.key = "title" /\ payload.changes.val # None
    THEN Commit(db, db, fail)
    ELSE Raised(db, "TypeError")

-----------------------------------------------------------------------------
(* The view function: webhook/__init__.py, lines 38-95.  It returns          *)
(* [db, status, text, extracted, fault, mutated, evented, failed].           *)

MEH_RESPONSE == "We may just circular-file that, but thanks!"
NO_AUTH == "This is not the hook we seek."

Answer(db, code, body) ==
    [db |-> db, status |-> code, text |-> body, extracted |-> NotExtracted,
     fault |-> NoFault, mutated |-> FALSE,
     evented |-> FALSE, failed |-> FALSE]

\* an exception leaves the view: Flask answers 500
Fault(db, exc, failed) ==
    [db |-> db, status |-> 500, text |-> "", extracted |-> NotExtracted,
     fault |-> exc, mutated |-> FALSE,
     evented |-> FALSE, failed |-> failed]

\* the dispatch with membership tests: both actions of a pair take the branch
Dispatch_membership(db, info, action, fail) ==
    LET With(r, ran) == [db |-> r.db, exc |-> r.exc, failed |-> r.failed, ran |-> ran]
    IN  IF action = "opened" THEN With(add_new_issue(db, info, fail), TRUE)
        ELSE IF action = "edited" THEN With(issue_title_edit(db, info, fail), TRUE)
        ELSE IF action \in {"closed", "reopened"}
        THEN With(issue_status_change(db, info, action, fail), TRUE)
        ELSE IF action \in {"milestoned", "unmilestoned"}
        THEN With(issue_milestone_change(db, info, fail), TRUE)
        ELSE IF action \in {"labeled", "unlabeled"}
        THEN With(issue_label_change(db, info, fail), TRUE)
        ELSE With(Returned(db), FALSE)

\* lines 61-70; [db, exc, failed, ran]: ran says that a branch was taken
Dispatch(db, info, action, fail) ==
    LET With(r, ran) == [db |-> r.db, exc |-> r.exc, failed |-> r.failed, ran |-> ran]
    IN  IF action = "opened" THEN With(add_new_issue(db, info, fail), TRUE)
        ELSE IF action = "edited" THEN With(issue_title_edit(db, info, fail), TRUE)
        \* action == ('closed' or 'reopened')
        ELSE IF action = "closed" THEN With(issue_status_change(db, info, action, fail), TRUE)
        \* action == ('milestoned' or 'unmilestoned')
        ELSE IF action = "milestoned" THEN With(issue_milestone_change(db, info, fail), TRUE)
        \* action == ('labeled' or 'unlabeled')
        ELSE IF action = "labeled" THEN With(issue_label_change(db, info, fail), TRUE)
        ELSE With(Returned(db), FALSE)

\* lines 57-75
IssuesBranch(db, payload, action, changes, failMutation, failEvent) ==
    IF ~is_desirable_issue_event(action, changes)
    THEN Answer(db, 202, MEH_RESPONSE)
    ELSE LET x == extract_issue_event_info(payload, action, changes)
         IN  IF x.exc # NoFault
             THEN [Fault(db, x.exc, FALSE) EXCEPT !.extracted = x]
             ELSE
             LET m == Dispatch(db, x.ret, action, failMutation)
             IN  IF m.exc # NoFault
                 THEN [Fault(m.db, m.exc, m.failed) EXCEPT !.extracted = x]
                 ELSE
                 LET e == add_new_event(m.db, x.ret, failEvent)
                 IN  [db      |-> e.db,
                      status  |-> IF e.exc = NoFault THEN 200 ELSE 500,
                      text    |-> IF e.exc = NoFault
                                  THEN "Yay! Data! *munch, munch, munch*" ELSE "",
                      extracted |-> x,
                      fault   |-> e.exc,
                      mutated |-> m.ran,
                      evented |-> e.db.events # m.db.events,
                      failed  |-> e.failed]

\* a label or milestone notification that was processed: the view ends without
\* a return statement, and Flask raises on the None it gets
Processed(r) ==
    IF r.exc # NoFault THEN Fault(r.db, r.exc, r.failed)
    ELSE Fault(r.db, "NoResponse", FALSE)

issues_hooklistener(db, req, failMutation, failEvent) ==
    LET hook == is_github_hook(req)
        payload == req.data
        event_type == req.headers["X-GitHub-Event"]
        \* json.loads raised: payload, action and changes are unbound names
        bound == payload.json
        action == IF payload.action = Absent THEN None ELSE payload.action
        changes == payload.changes
    IN  IF hook.exc # NoFault THEN Fault(db, hook.exc, FALSE)
        ELSE IF ~hook.ret THEN Answer(db, 401, "Move along, nothing to see here")
        ELSE IF event_type = "issues"
        THEN IF ~bound THEN Fault(db, "UnboundLocalError", FALSE)
             ELSE IssuesBranch(db, payload, action, changes, failMutation, failEvent)
        ELSE IF event_type = "label"
        THEN IF ~bound THEN Fault(db, "UnboundLocalError", FALSE)
             ELSE Processed(process_label_event_info(db, payload, failMutation))
        ELSE IF event_type = "milestone"
        THEN IF ~bound THEN Fault(db, "UnboundLocalError", FALSE)
             ELSE IF action \in {"created", "edited", "deleted"}
                  THEN Processed(process_milestone_event_info(db, payload, failMutation))
                  ELSE Answer(db, 202, MEH_RESPONSE)
        ELSE IF event_type = "ping" THEN Answer(db, 200, "pong")
        ELSE Answer(db, 403, NO_AUTH)

-----------------------------------------------------------------------------
(* Requests.  The body (request.data) is                                     *)
(*   [json, action, changes, issue, label, milestone, sender]                *)
(* json: json.loads accepts it; changes: [key, val], the one key of the      *)
(* changes object and the 'from' value under it (val = None: a null value;   *)
(* key = "empty": the object {}; key = Absent: no changes at all).           *)

IssueObj(n, t, m) ==
    [present |-> TRUE, number |-> n, title |-> t, milestone |-> m,
     created_at |-> "ts0", updated_at |-> "ts1"]

NoIssueObj ==
    [present |-> FALSE, number |-> 0, title |-> None, milestone |-> None,
     created_at |-> None, updated_at |-> None]

Payload(a, c, i, l, m) ==
    [json |-> TRUE, action |-> a, changes |-> c, issue |-> i, label |-> l,
     milestone |-> m, sender |-> Actor]

Garbage ==
    [json |-> FALSE, action |-> Absent, changes |-> NoChanges, issue |-> NoIssueObj,
     label |-> Absent, milestone |-> Absent, sender |-> None]

Changed(k, v) == [key |-> k, val |-> v]

IssuePayloads ==
    {Payload("opened", NoChanges, IssueObj(n, t, m), Absent, Absent) :
        n \in IssueIds, t \in Titles, m \in {None, "m1"}}
    \cup {Payload(a, NoChanges, IssueObj(n, "t1", None), Absent, Absent) :
        a \in {"closed", "reopened"}, n \in IssueIds}
    \cup {Payload(a, NoChanges, IssueObj(1, "t1", None), Absent, Absent) :
        a \in {"assigned", "unassigned", "pinned", Absent}}
    \cup {Payload("edited", Changed("title", "t1"), IssueObj(n, "t2", None), Absent, Absent) :
        n \in IssueIds}
    \cup {Payload("edited", c, IssueObj(1, "t2", None), Absent, Absent) :
        c \in {NoChanges, Changed("empty", None), Changed("body", "text"),
               Changed("title", None)}}
    \cup {Payload("milestoned", NoChanges, IssueObj(n, "t1", "m1"), Absent, Absent) :
        n \in IssueIds}
    \cup {Payload("milestoned", NoChanges, IssueObj(1, "t1", m), Absent, Absent) :
        m \in {"m2", None}}
    \cup {Payload("unmilestoned", NoChanges, IssueObj(n, "t1", None), Absent, Absent) :
        n \in IssueIds}
    \cup {Payload("unmilestoned", NoChanges, IssueObj(1, "t1", None), "bug", Absent)}
    \cup {Payload(a, NoChanges, IssueObj(n, "t1", None), l, Absent) :
        a \in {"labeled", "unlabeled"}, n \in IssueIds, l \in LabelNames}
    \cup {Payload("labeled", NoChanges, IssueObj(1, "t1", None), Absent, Absent)}
    \cup {Payload("closed", NoChanges, NoIssueObj, Absent, Absent)}

LabelPayloads ==
    {Payload(a, NoChanges, NoIssueObj, l, Absent) :
        a \in {"created", "deleted"}, l \in LabelNames}
    \cup {Payload("edited", Changed("name", "bug"), NoIssueObj, "defect", Absent),
          Payload("edited", Changed("name", "defect"), NoIssueObj, "bug", Absent),
          Payload("edited", Changed("color", "red"), NoIssueObj, "bug", Absent),
          Payload(Absent, NoChanges, NoIssueObj, Absent, Absent)}

MilestonePayloads ==
    {Payload(a, NoChanges, NoIssueObj, Absent, m) :
        a \in {"created", "deleted"}, m \in MilestoneTitles}
    \cup {Payload("edited", Changed("title", "m1"), NoIssueObj, Absent, "m2"),
          Payload("edited", Changed("title", "m2"), NoIssueObj, Absent, "m1"),
          Payload("edited", Changed("description", "text"), NoIssueObj, Absent, "m1"),
          Payload("closed", NoChanges, NoIssueObj, Absent, "m1")}

PingPayload == Payload(Absent, NoChanges, NoIssueObj, Absent, Absent)

\* the header GitHub computes for a body
Signed(data) == <<"sha1", "=">> \o get_payload_signature(HOOK_SECRET_KEY, data)

Headers(event, signature) ==
    ("X-GitHub-Event" :> event) @@ ("X-Hub-Signature" :> signature)

Hook(event, data) == [headers |-> Headers(event, Signed(data)), data |-> data]

\* signature headers that are not the body's signature
BadSignatures ==
    { <<>>, <<"sha1", "=">>, <<"sha1", "=", "bb">>, <<"md5", "=", "aa">>, <<"aa">>,
      <<"sha1", "=", "aa", "=", "bb">>, <<"sha1", "=", "=">> }

ClosedOne == Payload("closed", NoChanges, IssueObj(1, "t1", None), Absent, Absent)

Requests ==
    {Hook("issues", d) : d \in IssuePayloads}
    \cup {Hook("label", d) : d \in LabelPayloads}
    \cup {Hook("milestone", d) : d \in MilestonePayloads}
    \cup {Hook("ping", PingPayload), Hook("push", PingPayload)}
    \cup {Hook(e, Garbage) : e \in {"issues", "label", "milestone", "ping", "push"}}
    \* no signature header
    \cup {[headers |-> ("X-GitHub-Event" :> e), data |-> ClosedOne] :
            e \in {"issues", "push"}}
    \* no event header
    \cup {[headers |-> ("X-Hub-Signature" :> Signed(ClosedOne)), data |-> ClosedOne],
          [headers |-> <<>>, data |-> ClosedOne]}
    \* a signature header that is not the body's
    \cup {[headers |-> Headers("issues", x), data |-> ClosedOne] : x \in BadSignatures}
    \cup {[headers |-> Headers("push", <<"sha1", "=", "bb">>), data |-> ClosedOne],
          [headers |-> Headers("issues", <<"sha1", "=", "aa">>), data |-> Garbage]}

-----------------------------------------------------------------------------
(* The state machine *)

Row(t, o, m, ls) == [title |-> t, is_open |-> o, milestone_id |-> m, labels |-> ls]

\* The tables the listener starts on: label "bug" and milestone "m1" exist,
\* "defect" and "m2" do not; issue 2 exists; issue 1 may exist, in any state
InitIssues ==
    { (2 :> Row("t1", TRUE, None, {})) }
    \cup { (1 :> Row("t1", o, m, ls)) @@ (2 :> Row("t1", TRUE, None, {})) :
             o \in BOOLEAN, m \in {None, "m1"}, ls \in SUBSET {"bug"} }

NoTrip == [stage |-> 0, action |-> None, number |-> 0, name |-> None, start |-> <<>>]

Authenticated(req) ==
    LET hook == is_github_hook(req) IN hook.exc = NoFault /\ hook.ret

\* an authenticated issue notification that the classifier marks desirable
Desirable(req) ==
    /\ Authenticated(req)
    /\ req.headers["X-GitHub-Event"] = "issues"
    /\ req.data.json
    /\ is_desirable_issue_event(req.data.action, req.data.changes)

TripName(req) ==
    IF req.data.action \in {"labeled", "unlabeled"}
    THEN req.data.label ELSE req.data.issue.milestone

\* the issue, label and milestone that the notification names are in the tables
\* (an 'opened' issue is not there yet)
Resolvable(req) ==
    /\ req.data.issue.present
    /\ IF req.data.action = "opened"
       THEN /\ req.data.issue.number \notin DOMAIN issues
            /\ req.data.issue.milestone \in Named(milestones) \cup {None}
       ELSE req.data.issue.number \in DOMAIN issues
    /\ req.data.action \in {"labeled", "unlabeled"} => req.data.label \in Named(labels)
    /\ req.data.action = "milestoned" => req.data.issue.milestone \in Named(milestones)

\* the first half of a round trip: an issue that exists is given a label or a
\* milestone that exists (wanted: the notification is desirable and resolvable)
Opens(req, wanted) ==
    /\ wanted
    /\ req.data.action \in {"labeled", "milestoned"}

\* the second half, following its first half
Closes(req, wanted) ==
    /\ trip.stage = 1
    /\ wanted
    /\ req.data.issue.number = trip.number
    /\ \/ trip.action = "labeled" /\ req.data.action = "unlabeled"
                                  /\ req.data.label = trip.name
       \/ trip.action = "milestoned" /\ req.data.action = "unmilestoned"

NextTrip(req, wanted, failed) ==
    IF failed THEN NoTrip
    ELSE IF Opens(req, wanted)
    THEN [stage |-> 1, action |-> req.data.action, number |-> req.data.issue.number,
          name |-> TripName(req), start |-> issues]
    ELSE IF Closes(req, wanted) THEN [trip EXCEPT !.stage = 2]
    ELSE NoTrip

NextLastStatus(req, wanted, failed) ==
    IF wanted /\ ~failed /\ req.data.action \in {"closed", "reopened"}
    THEN [lastStatus EXCEPT ![req.data.issue.number] = req.data.action]
    ELSE lastStatus

Workers == {1, 2}

\* a handler: req, the request it serves; refusal, which of its commits the
\* database refuses; pc, its place in the view; info, what it extracted; seen,
\* the issue table as its session read it
Idle ==
    [req |-> [headers |-> <<>>, data |-> Garbage], refusal |-> <<FALSE, FALSE>>,
     pc |-> "idle", info |-> NoInfo, seen |-> <<>>]

NoOrigin == [issues |-> <<>>, labels |-> <<>>, milestones |-> <<>>, events |-> <<>>]

Init ==
    /\ workers = [w \in Workers |-> Idle]
    /\ origin = NoOrigin
    /\ interleaved = FALSE
    /\ issues \in InitIssues
    /\ labels = [name \in LabelNames |-> IF name = "bug" THEN 1 ELSE 0]
    /\ milestones = [title \in MilestoneTitles |-> IF title = "m1" THEN 1 ELSE 0]
    /\ events = <<>>
    /\ request = [headers |-> <<>>, data |-> Garbage]
    /\ status = 0
    /\ text = ""
    /\ extracted = NotExtracted
    /\ fault = NoFault
    /\ mutated = FALSE
    /\ evented = FALSE
    /\ dbFailed = FALSE
    /\ persisted = FALSE
    /\ due = FALSE
    /\ trip = NoTrip
    /\ lastStatus = [i \in IssueIds |-> None]
    /\ handled = 0
    /\ delivered = 0

\* One POST to /webhooks/ghevents, handled to its response.  failMutation and
\* failEvent say whether the database refuses the commit of the entity
\* change and of the event
Deliver(req, failMutation, failEvent) ==
    /\ delivered < MaxRequests
    /\ \E out \in {issues_hooklistener([issues |-> issues, labels |-> labels,
                                        milestones |-> milestones, events |-> events],
                                       req, failMutation, failEvent)} :
       \E wanted \in {Desirable(req) /\ Resolvable(req)} :
           /\ issues' = out.db.issues
           /\ labels' = out.db.labels
           /\ milestones' = out.db.milestones
           /\ events' = out.db.events
           /\ request' = req
           /\ status' = out.status
           /\ text' = out.text
           /\ extracted' = out.extracted
           /\ fault' = out.fault
           /\ mutated' = out.mutated
           /\ evented' = out.evented
           /\ dbFailed' = out.failed
           /\ persisted' = (<<out.db.issues, out.db.labels, out.db.milestones,
                               out.db.events>> # <<issues, labels, milestones, events>>)
           /\ due' = wanted
           /\ trip' = NextTrip(req, wanted, out.failed)
           /\ lastStatus' = NextLastStatus(req, wanted, out.failed)
           /\ handled' = IF wanted /\ ~out.failed THEN handled + 1 ELSE handled
           /\ delivered' = delivered + 1
           /\ UNCHANGED <<workers, origin, interleaved>>

\* which commit of a request the database refuses: none, that of the entity
\* change (the event's is then not reached), or that of the event
Refusals == {<<FALSE, FALSE>>, <<TRUE, FALSE>>, <<FALSE, TRUE>>}

Next == \E req \in Requests, refusal \in Refusals :
            Deliver(req, refusal[1], refusal[2])

Spec == Init /\ [][Next]_vars

-----------------------------------------------------------------------------
(* Two handlers at the same time.  Each request is served with a session of  *)
(* its own; the steps of a handler are its accesses to the database: the     *)
(* reads of a helper, and each commit.  The two notifications are the halves *)
(* of a label change or of a milestone change of one issue.                  *)

PairedNotes(n, action) ==
    {d \in IssuePayloads : d.action = action /\ d.issue.present /\ d.issue.number = n}

\* <<the half that adds, the half that removes>>
RacePairs ==
    UNION { (PairedNotes(n, "labeled") \X PairedNotes(n, "unlabeled"))
            \cup (PairedNotes(n, "milestoned") \X PairedNotes(n, "unmilestoned")) :
            n \in IssueIds }

Arrived(data, refusal) ==
    [Idle EXCEPT !.req = Hook("issues", data), !.refusal = refusal, !.pc = "received"]

InitConcurrent ==
    /\ issues \in InitIssues
    /\ labels = [name \in LabelNames |-> IF name = "bug" THEN 1 ELSE 0]
    /\ milestones = [title \in MilestoneTitles |-> IF title = "m1" THEN 1 ELSE 0]
    /\ events = <<>>
    /\ \E pair \in RacePairs, r1 \in Refusals, r2 \in Refusals :
          workers = (1 :> Arrived(pair[1], r1)) @@ (2 :> Arrived(pair[2], r2))
    /\ origin = [issues |-> issues, labels |-> labels, milestones |-> milestones,
                 events |-> events]
    /\ interleaved = FALSE
    /\ request = [headers |-> <<>>, data |-> Garbage]
    /\ status = 0
    /\ text = ""
    /\ extracted = NotExtracted
    /\ fault = NoFault
    /\ mutated = FALSE
    /\ evented = FALSE
    /\ dbFailed = FALSE
    /\ persisted = FALSE
    /\ due = FALSE
    /\ trip = NoTrip
    /\ lastStatus = [i \in IssueIds |-> None]
    /\ handled = 0
    /\ delivered = 0

\* the handler has touched the database and has not answered yet
Underway(w) == workers[w].pc \in {"load", "change", "event"}

Other(w) == CHOOSE v \in Workers : v # w

\* the tables as the session of the handler has them: the issue rows it loaded,
\* the other tables as they are
Session(w) ==
    [issues |-> workers[w].seen, labels |-> labels, milestones |-> milestones,
     events |-> events]

\* the UPDATE of a commit: the attributes the handler changed on the row it
\* read take the handler's values, the others stay as they are in the table
Flush(current, read, changed) ==
    [title        |-> IF changed.title # read.title
                      THEN changed.title ELSE current.title,
     is_open      |-> IF changed.is_open # read.is_open
                      THEN changed.is_open ELSE current.is_open,
     milestone_id |-> IF changed.milestone_id # read.milestone_id
                      THEN changed.milestone_id ELSE current.milestone_id,
     labels       |-> IF changed.labels # read.labels
                      THEN changed.labels ELSE current.labels]

Step(w, pc) ==
    /\ workers[w].pc = pc
    /\ interleaved' = (interleaved \/ Underway(Other(w)))
    /\ UNCHANGED <<labels, milestones, origin, request, status, text, extracted,
                   fault, mutated, evented, dbFailed, persisted, due, trip,
                   lastStatus, handled, delivered>>

\* the view up to its dispatch (lines 44-61): no table is read
Receive(w) ==
    /\ Step(w, "received")
    /\ LET req == workers[w].req
           x == extract_issue_event_info(req.data, req.data.action, req.data.changes)
       IN  workers' = [workers EXCEPT
               ![w].info = x.ret,
               ![w].pc = IF ~Desirable(req) \/ x.exc # NoFault THEN "done"
                         ELSE IF Dispatch(Session(w), x.ret, req.data.action, FALSE).ran
                              THEN "load"
                              ELSE "event"]
    /\ UNCHANGED <<issues, events>>

\* the queries of the helper the dispatch calls: Issue.query.get
Load(w) ==
    /\ Step(w, "load")
    /\ workers' = [workers EXCEPT ![w].seen = issues, ![w].pc = "change"]
    /\ UNCHANGED <<issues, events>>

\* the rest of the helper: the change of the loaded row, and the commit
Change(w) ==
    /\ Step(w, "change")
    /\ LET info == workers[w].info
           m == Dispatch(Session(w), info, info.action, workers[w].refusal[1])
           n == info.issue_id
       IN  IF m.exc # NoFault
           THEN /\ workers' = [workers EXCEPT ![w].pc = "done"]
                /\ UNCHANGED issues
           ELSE /\ workers' = [workers EXCEPT ![w].pc = "event"]
                /\ issues' = [issues EXCEPT
                                 ![n] = Flush(@, workers[w].seen[n], m.db.issues[n])]
    /\ UNCHANGED events

\* add_new_event: the insert of the event row, and its commit
LogEvent(w) ==
    /\ Step(w, "event")
    /\ events' = add_new_event(Session(w), workers[w].info, workers[w].refusal[2]).db.events
    /\ workers' = [workers EXCEPT ![w].pc = "done"]
    /\ UNCHANGED issues

NextConcurrent ==
    \E w \in Workers : Receive(w) \/ Load(w) \/ Change(w) \/ LogEvent(w)

SpecConcurrent == InitConcurrent /\ [][NextConcurrent]_vars

-----------------------------------------------------------------------------
(* What the last request was, read off the request itself *)

HasEvent == HasHeader(request, "X-GitHub-Event")
HasSignature == HasHeader(request, "X-Hub-Signature")
Signature == request.headers["X-Hub-Signature"]
EventType == request.headers["X-GitHub-Event"]
Body == request.data

\* the number of "=" chunks of a header
RECURSIVE CountEq(_)
CountEq(s) == IF s = <<>> THEN 0 ELSE (IF Head(s) = "=" THEN 1 ELSE 0) + CountEq(Tail(s))

\* sha1=<digest> with <digest> the keyed hash of the body
SignatureValid == HasSignature /\ Signature = Signed(Body)

\* sha1=...=...: more than one "="
SignatureOverSplit ==
    HasSignature /\ StartsWithSha1(Signature) /\ CountEq(Signature) > 1

\* an authenticated issue notification with the given action, for an issue
\* that the payload names
IssueNote(a) ==
    /\ delivered > 0 /\ HasEvent /\ SignatureValid
    /\ EventType = "issues" /\ Body.json /\ Body.action = a /\ Body.issue.present

Number == Body.issue.number

Tables == <<issues, labels, milestones, events>>

-----------------------------------------------------------------------------
(* Claims *)

\* C1: every desirable issue notification that is processed (the issue, label
\* and milestone it names exist and no commit of it is refused) adds exactly
\* one Event, and the number of Events equals the number of such notifications.
CX_C1_OneEventPerNotification ==
    /\ (due /\ ~dbFailed) => evented
    /\ Len(events) = handled

\* C2: the issue mutation of a notification and its Event persist together or
\* not at all, also when the database refuses a commit.  Stated for the
\* actions whose mutation the dispatch of the view performs.
CX_C2_MutationAndEventAtomic ==
    (due /\ Body.action \in {"edited", "closed", "labeled"})
        => (mutated <=> evented)

\* C3: an existing issue is open exactly when its last processed
\* closed/reopened notification was 'reopened'.
CX_C3_StatusFollowsLastNotification ==
    \A i \in DOMAIN issues :
        lastStatus[i] # None => (issues[i].is_open <=> lastStatus[i] = "reopened")

\* C4: after a processed 'milestoned' notification naming an existing
\* milestone M for an existing issue, the issue's milestone is M.
CX_C4_MilestonedSetsMilestone ==
    (/\ IssueNote("milestoned") /\ ~dbFailed
     /\ Number \in DOMAIN issues
     /\ Body.issue.milestone \in Named(milestones))
        => issues[Number].milestone_id = Body.issue.milestone

\* C5: 'milestoned' for M and then 'unmilestoned' on the same issue leave the
\* issue with no milestone.
CX_C5_MilestoneRoundTrip ==
    (trip.stage = 2 /\ trip.action = "milestoned")
        => issues[trip.number].milestone_id = None

\* C6: 'labeled' and then 'unlabeled' for the same existing label on the same
\* issue restore the issue's label set; in between the label is in the set.
CX_C6_LabelRoundTrip ==
    /\ (trip.stage = 1 /\ trip.action = "labeled")
          => trip.name \in issues[trip.number].labels
    /\ (trip.stage = 2 /\ trip.action = "labeled")
          => issues[trip.number].labels = trip.start[trip.number].labels

\* C7: an authenticated 'opened' notification whose milestone is null creates
\* the Issue (number and title as notified, open, no milestone) and appends one
\* Event with that issue, the sender, action 'opened' and no detail.
CX_C7_OpenedCreatesIssueAndEvent ==
    (IssueNote("opened") /\ Body.issue.milestone = None /\ ~dbFailed)
        => /\ Number \in DOMAIN issues
           /\ issues[Number].title = Body.issue.title
           /\ issues[Number].is_open
           /\ issues[Number].milestone_id = None
           /\ evented
           /\ events # <<>>
           /\ LET e == events[Len(events)]
              IN  /\ e.issue_id = Number /\ e.actor = Body.sender
                  /\ e.action = "opened" /\ e.details = NoDetails

\* C8 as stated: 401 exactly when the event header is missing; 403 when it is
\* present and the signature is absent or invalid, or the signature is valid
\* and the category unrecognized; nothing is persisted in these cases.
Recognized == {"issues", "label", "milestone", "ping"}

CX_C8_StatusByHeaderAndSignature ==
    delivered > 0 =>
        /\ status = 401 <=> ~HasEvent
        /\ (HasEvent /\ ~SignatureValid) => status = 403
        /\ (HasEvent /\ SignatureValid /\ EventType \notin Recognized) => status = 403
        /\ status \in {401, 403} => ~persisted

\* the signature header is missing, empty, of another scheme, or sha1=<digest>
\* with a digest that is not the body's
SignatureRejected ==
    \/ ~HasSignature
    \/ Signature = <<>>
    \/ ~StartsWithSha1(Signature)
    \/ CountEq(Signature) = 1 /\ Signature # Signed(Body)

\* C8: the handler answers 401 exactly when the event header is missing or the
\* signature is missing or rejected, and 403 exactly when the signature is
\* valid and the category unrecognized; nothing is persisted in these cases.
T_C8_StatusByAuthentication ==
    delivered > 0 =>
        /\ status = 401 <=> (~HasEvent \/ SignatureRejected)
        /\ status = 403 <=> (HasEvent /\ SignatureValid /\ EventType \notin Recognized)
        /\ status \in {401, 403} => ~persisted

W_C8_BadSignatureAnswered401 ==
    /\ delivered > 0 /\ HasEvent /\ HasSignature /\ Signature # <<>>
    /\ ~SignatureValid /\ status = 401 /\ ~persisted

\* C9: signature_check never raises: a request whose signature header is not
\* the body's signature is turned away (401) by is_github_hook, whatever the
\* header holds.
CX_C9_SignatureCheckFailsClosed ==
    (delivered > 0 /\ HasEvent /\ HasSignature /\ ~SignatureValid)
        => (status = 401 /\ fault = NoFault)

\* C10 as stated: an issue notification is desirable (not answered 202) exactly
\* when its action is one of the seven, or 'edited' with a title key in the
\* changes map.
Persisted7 == {"opened", "closed", "reopened", "labeled", "unlabeled",
               "milestoned", "unmilestoned"}

IssueCategory ==
    /\ delivered > 0 /\ HasEvent /\ SignatureValid
    /\ EventType = "issues" /\ Body.json

CX_C10_DesirableByTitleKey ==
    IssueCategory =>
        (status # 202 <=>
            \/ Body.action \in Persisted7
            \/ Body.action = "edited" /\ Body.changes.key = "title")

\* C10: an issue notification is desirable (not answered 202) exactly when its
\* action is one of the seven, or 'edited' with a title entry in the changes
\* map whose value is not null.
T_C10_DesirableByTitleChange ==
    IssueCategory =>
        (status # 202 <=>
            \/ Body.action \in Persisted7
            \/ /\ Body.action = "edited"
               /\ Body.changes.key = "title" /\ Body.changes.val # None)

W_C10_TitleEditProcessed ==
    /\ IssueCategory /\ Body.action = "edited"
    /\ Body.changes.key = "title" /\ Body.changes.val # None
    /\ status # 202

\* C11: a notification with a valid signature and a category header whose body
\* is not valid JSON creates no Issue, Event, Label or Milestone row, and it is
\* answered with a 2xx status, not with a server error.  Stated for the
\* categories the listener handles.
CX_C11_MalformedBodyFailsSoft ==
    (/\ delivered > 0 /\ HasEvent /\ SignatureValid
     /\ EventType \in Recognized
     /\ ~Body.json)
        => (~persisted /\ status \in 200..299)

\* the number of rows of a table
RECURSIVE SumOver(_, _)
SumOver(table, names) ==
    IF names = {} THEN 0
    ELSE LET name == CHOOSE x \in names : TRUE
         IN  table[name] + SumOver(table, names \ {name})

Rows(table) == SumOver(table, DOMAIN table)

\* the last request was an authenticated notification of the category that
\* carries a rename: changes holds the prior name under the key
RenameOf(category, key) ==
    /\ delivered > 0 /\ HasEvent /\ SignatureValid
    /\ EventType = category /\ Body.json /\ Body.action = "edited"
    /\ Body.changes.key = key /\ Body.changes.val # None

\* the step renames the one row of the table named as the changes say
Renamed(before, after, prior, new) ==
    /\ RowsNamed(after, new) = 1
    /\ RowsNamed(after, prior) = 0
    /\ Rows(after) = Rows(before)

\* C12: a label (milestone) notification that carries a rename renames the
\* entity found by its prior name (title): afterwards a row of the new name
\* exists, none of the prior name, and the number of rows is unchanged.
\* Stated for a prior name that has a row, a new name that has none, and no
\* refused commit.
CX_C12_RenameRenames ==
    [][ /\ (/\ RenameOf("label", "name")' /\ ~dbFailed'
            /\ RowsNamed(labels, Body'.changes.val) = 1
            /\ RowsNamed(labels, Body'.label) = 0)
           => Renamed(labels, labels', Body'.changes.val, Body'.label)
        /\ (/\ RenameOf("milestone", "title")' /\ ~dbFailed'
            /\ RowsNamed(milestones, Body'.changes.val) = 1
            /\ RowsNamed(milestones, Body'.milestone) = 0)
           => Renamed(milestones, milestones', Body'.changes.val, Body'.milestone)
      ]_vars

\* the last request was an authenticated notification of the category that
\* reports the deletion of an entity
DeletionOf(category) ==
    /\ delivered > 0 /\ HasEvent /\ SignatureValid
    /\ EventType = category /\ Body.json /\ Body.action = "deleted"
    /\ Body.changes.key = Absent

\* C13: a label (milestone) notification whose action is neither 'created' nor
\* a rename removes the entity found by its current name (title): after a
\* 'deleted' notification for N whose commit is not refused, also one that
\* follows a 'created' notification for N, the store has no row named N.
CX_C13_DeletedRemoves ==
    /\ (DeletionOf("label") /\ ~dbFailed) => RowsNamed(labels, Body.label) = 0
    /\ (DeletionOf("milestone") /\ ~dbFailed)
          => RowsNamed(milestones, Body.milestone) = 0

DetailByAction ==
    IF Body.action \in {"opened", "closed", "reopened"} THEN NoDetails
    ELSE IF Body.action = "edited"
    THEN [key |-> "old title", val |-> Body.changes.val]
    ELSE IF Body.action \in {"milestoned", "unmilestoned"}
    THEN [key |-> "milestone title", val |-> Body.issue.milestone]
    ELSE [key |-> "label name", val |-> Body.label]

\* C15: extract_issue_event_info sets the detail value by action: absent for
\* opened, closed and reopened, the prior title for an edit with a title
\* change, the current milestone title for milestoned and for unmilestoned,
\* the name of the affected label for labeled and unlabeled.  Stated for the
\* desirable notifications, on which the view calls it, whose payload has the
\* issue, for milestoned its milestone and for labeled/unlabeled the label.
CX_C15_DetailByAction ==
    (/\ IssueCategory /\ is_desirable_issue_event(Body.action, Body.changes)
     /\ Body.issue.present
     /\ Body.action = "milestoned" => Body.issue.milestone # None
     /\ Body.action \in {"labeled", "unlabeled"} => Body.label # Absent)
        => (extracted.exc = NoFault /\ extracted.ret.details = DetailByAction)

\* the last request was an authenticated issue notification that is not
\* desirable: its action is none of the seven and it is not an edit of the title
Undesirable ==
    /\ IssueCategory
    /\ Body.action \notin Persisted7
    /\ ~(Body.action = "edited" /\ Body.changes.key = "title")

\* the last request was an authenticated liveness check
LivenessCheck == delivered > 0 /\ HasEvent /\ SignatureValid /\ EventType = "ping"

\* C16: an authenticated issue notification that is not desirable (assigned,
\* unassigned, an edit of the body only) and a liveness check leave every Issue,
\* Label, Milestone and the Event log unchanged; the former is answered 202,
\* the latter 200 'pong'.
T_C16_UnprocessedLeavesStore ==
    /\ Undesirable => (status = 202 /\ text = MEH_RESPONSE /\ ~persisted)
    /\ LivenessCheck => (status = 200 /\ text = "pong" /\ ~persisted)

\* an 'assigned' notification arrives at a store that has an event, and is
\* acknowledged
W_C16_AssignedAcknowledged ==
    /\ Undesirable /\ Body.action = "assigned"
    /\ events # <<>>
    /\ status = 202 /\ ~persisted

\* every milestone and label an issue refers to has a row
ReferencesResolve ==
    \A i \in DOMAIN issues :
        /\ issues[i].milestone_id # None
              => RowsNamed(milestones, issues[i].milestone_id) > 0
        /\ \A name \in issues[i].labels : RowsNamed(labels, name) > 0

\* the last request was an issue notification that names a label or a
\* milestone of which the store has no row
LookupMiss ==
    \/ /\ IssueNote("labeled")
       /\ Body.label # Absent /\ RowsNamed(labels, Body.label) = 0
    \/ /\ IssueNote("opened") \/ IssueNote("milestoned")
       /\ Body.issue.milestone # None
       /\ RowsNamed(milestones, Body.issue.milestone) = 0

CX_C18_NoFaultEscapes ==
    (delivered > 0 /\ HasEvent /\ SignatureValid)
        => (status \in {200, 202, 401, 403} /\ fault = NoFault)

\* C20: a processed 'edited' notification with a title change overwrites the
\* title of the existing issue with the notified title; it leaves the open
\* status, the milestone and the label set of that issue unchanged, and every
\* other Issue, Label and Milestone unchanged.
T_C20_TitleEditFrame ==
    [][ (IssueNote("edited")' /\ mutated')
           => /\ Number' \in DOMAIN issues
              /\ issues' = [issues EXCEPT ![Number'].title = Body'.issue.title]
              /\ labels' = labels
              /\ milestones' = milestones
      ]_vars

\* issue 1, closed, with milestone "m1" and label "bug", got the title "t2"
W_C20_TitleOverwritten ==
    /\ IssueNote("edited") /\ mutated
    /\ Number = 1 /\ Body.issue.title = "t2"
    /\ issues[1] = Row("t2", FALSE, "m1", {"bug"})

\* both handlers have answered
Finished == \A w \in Workers : workers[w].pc = "done"

\* the issue table and the event log after the two requests are handled one
\* after the other, each to its response, from the tables the handlers started on
Serial(first, second) ==
    LET a == issues_hooklistener(origin, workers[first].req,
                                 workers[first].refusal[1], workers[first].refusal[2])
        b == issues_hooklistener(a.db, workers[second].req,
                                 workers[second].refusal[1], workers[second].refusal[2])
    IN  <<b.db.issues, b.db.events>>

====
